---- MODULE Spec2Model ----
(***************************************************************************)
(* Fake-News-Analyser-Telegram-Bot: the verdict extractor and formatter    *)
(* of analyse.py and the chat handler of bot.py.                           *)
(*                                                                         *)
(* Python strings are sequences of one-character strings, so that strip,   *)
(* find, slicing, startswith and the JSON scanner work on characters.      *)
(* A Python value is a record [kind, s, items]:                            *)
(*   kind "null"            None                                           *)
(*   kind "str",  s         a str with the characters s                    *)
(*   kind "num",  s         an int or float whose str() is s               *)
(*   kind "bool", s         True / False (s is its str())                  *)
(*   kind "list", items     items[i] = <<{}, value>>                       *)
(*   kind "dict", items     items[i] = <<key characters, value>>, in       *)
(*                          insertion order, keys unique                   *)
(***************************************************************************)
EXTENDS Integers, Sequences, FiniteSets, TLC

VARIABLES
    \* extract_json_from_response(response_text, user_text)
    response_text,  \* its first argument
    user_text,      \* its second argument
    epc,            \* the position in the function
    data,           \* the local `data`, then the value returned
    raised,         \* the exception that left the function ("" for none)
    stages,         \* the parse stages entered so far, in order
    data2,          \* the record after the link-repair rule is applied once more
    \* create_news_input(news_text, image_source)
    news_text,      \* its first argument
    image_source,   \* its second argument
    cpc,            \* the position in the function
    image_bytes,    \* what the fetch or read gave: "none", "bytes", "empty", "error"
    news_input,     \* the value returned
    \* json_to_formatted_text(json_data)
    json_data,      \* its argument
    fpc,            \* the position in the function
    formatted_text, \* the value returned
    \* analyze(update, context), one call per inbound message
    msg,            \* msg[r]: the message of request r (text, photo)
    pc,             \* pc[r]: where the handler of request r stands
    frames,         \* the local variables of the handler calls
    replies,        \* replies[r]: the texts sent with reply_text, in order
    sent,           \* sent[r]: what was passed to analyze_news
    ai,             \* ai[r]: what the AI service did for request r
    fetch,          \* fetch[r]: what the image download gave for request r
    touched         \* touched[r]: another request ran while r was suspended

extractVars == <<response_text, user_text, epc, data, raised, stages, data2>>
inputVars == <<news_text, image_source, cpc, image_bytes, news_input>>
formatVars == <<json_data, fpc, formatted_text>>
botVars == <<msg, pc, frames, replies, sent, ai, fetch, touched>>

vars == <<extractVars, inputVars, formatVars, botVars>>

-----------------------------------------------------------------------------
(* Character strings of the program text.                                  *)

\* 'http://'
HttpPrefix ==
    <<"h","t","t","p",":","/","/">>

\* 'https://'
HttpsPrefix ==
    <<"h","t","t","p","s",":","/","/">>

\* 'https://www.google.com/search?q='
SearchUrlPrefix ==
    <<"h","t","t","p","s",":","/","/","w","w","w",".","g","o","o","g","l","e",".","c","o","m","/","s","e","a","r","c","h","?","q","=">>

\* 'sources'
SourcesKey ==
    <<"s","o","u","r","c","e","s">>

\* 'None'
NoneText ==
    <<"N","o","n","e">>

\* 'True'
TrueText ==
    <<"T","r","u","e">>

\* 'False'
FalseText ==
    <<"F","a","l","s","e">>

\* 'null'
NullLiteral ==
    <<"n","u","l","l">>

\* 'true'
TrueLiteral ==
    <<"t","r","u","e">>

\* 'false'
FalseLiteral ==
    <<"f","a","l","s","e">>

-----------------------------------------------------------------------------
(* Python values.                                                          *)

NoneVal == [kind |-> "null", s |-> <<>>, items |-> <<>>]
StrVal(chars) == [kind |-> "str", s |-> chars, items |-> <<>>]
NumVal(chars) == [kind |-> "num", s |-> chars, items |-> <<>>]
BoolVal(b) == [kind |-> "bool", s |-> IF b THEN TrueText ELSE FalseText, items |-> <<>>]
ListVal(elems) == [kind |-> "list", s |-> <<>>, items |-> elems]
DictVal(entries) == [kind |-> "dict", s |-> <<>>, items |-> entries]

IsDict(v) == v.kind = "dict"
IsStr(v) == v.kind = "str"

\* `key in d` for a dict d
DictHas(d, key) == \E i \in 1..Len(d.items) : d.items[i][1] = key

\* d[key] for a dict d that has the key
DictAt(d, key) == d.items[CHOOSE i \in 1..Len(d.items) : d.items[i][1] = key][2]

\* d[key] = value: an existing key keeps its position, a new key is appended
DictSet(entries, key, value) ==
    IF \E i \in 1..Len(entries) : entries[i][1] = key
    THEN [i \in 1..Len(entries) |->
            IF entries[i][1] = key THEN <<key, value>> ELSE entries[i]]
    ELSE Append(entries, <<key, value>>)

-----------------------------------------------------------------------------
(* str methods.                                                            *)

Digits == {"0", "1", "2", "3", "4", "5", "6", "7", "8", "9"}

\* the characters str.strip() removes
Whitespace == {" ", "\n", "\t"}

\* s.startswith(prefix)
StartsWith(s, prefix) ==
    /\ Len(s) >= Len(prefix)
    /\ \A i \in 1..Len(prefix) : s[i] = prefix[i]

\* s.isdigit(): FALSE for the empty string
IsDigit(s) == Len(s) > 0 /\ \A i \in 1..Len(s) : s[i] \in Digits

RECURSIVE LStrip(_)
LStrip(s) ==
    IF Len(s) > 0 /\ s[1] \in Whitespace THEN LStrip(Tail(s)) ELSE s

RECURSIVE RStrip(_)
RStrip(s) ==
    IF Len(s) > 0 /\ s[Len(s)] \in Whitespace
    THEN RStrip(SubSeq(s, 1, Len(s) - 1))
    ELSE s

\* s.strip()
Strip(s) == RStrip(LStrip(s))

\* s.replace(' ', '+')
ReplaceSpaces(s) == [i \in 1..Len(s) |-> IF s[i] = " " THEN "+" ELSE s[i]]

\* s[:n]
Prefix(s, n) == SubSeq(s, 1, IF Len(s) < n THEN Len(s) ELSE n)

\* s.find(c): the 0-based index of the first c, -1 when there is none
Find(s, c) ==
    IF \E i \in 1..Len(s) : s[i] = c
    THEN (CHOOSE i \in 1..Len(s) : s[i] = c /\ \A j \in 1..(i - 1) : s[j] # c) - 1
    ELSE -1

\* s.find(c) again: what s.rfind(c) becomes when the wrong method is called
RFindAsFind(s, c) == Find(s, c)

\* s.rfind(c): the 0-based index of the last c, -1 when there is none
RFind(s, c) ==
    IF \E i \in 1..Len(s) : s[i] = c
    THEN (CHOOSE i \in 1..Len(s) : s[i] = c /\ \A j \in (i + 1)..Len(s) : s[j] # c) - 1
    ELSE -1

\* s[start:end + 1] for 0 <= start < end < len(s)
Slice(s, start, end) == SubSeq(s, start + 1, end + 1)

RECURSIVE JoinWith(_, _)
\* sep.join(parts)
JoinWith(parts, sep) ==
    IF Len(parts) = 0 THEN <<>>
    ELSE IF Len(parts) = 1 THEN parts[1]
    ELSE parts[1] \o sep \o JoinWith(Tail(parts), sep)

RECURSIVE Repr(_)
\* repr(v); the strings of the model hold no quote, backslash or control
\* character, so a str is its characters between single quotes
Repr(v) ==
    CASE v.kind = "null" -> NoneText
      [] v.kind = "str"  -> <<"'">> \o v.s \o <<"'">>
      [] v.kind = "num"  -> v.s
      [] v.kind = "bool" -> v.s
      [] v.kind = "list" ->
            <<"[">> \o JoinWith([i \in 1..Len(v.items) |-> Repr(v.items[i][2])],
                                <<",", " ">>) \o <<"]">>
      [] v.kind = "dict" ->
            <<"{">> \o JoinWith([i \in 1..Len(v.items) |->
                                    <<"'">> \o v.items[i][1] \o <<"'", ":", " ">>
                                    \o Repr(v.items[i][2])],
                                <<",", " ">>) \o <<"}">>

\* str(v)
StrOf(v) == IF v.kind = "str" THEN v.s ELSE Repr(v)

-----------------------------------------------------------------------------
(* json.loads on a str: objects, arrays, strings without escapes, unsigned *)
(* decimal numbers without exponent, true, false, null; whitespace between *)
(* tokens; nothing but whitespace after the value.                         *)

JsonWhitespace == {" ", "\n", "\t", "\r"}

ParseFail == [ok |-> FALSE, val |-> NoneVal, pos |-> 0]
ParseOk(v, p) == [ok |-> TRUE, val |-> v, pos |-> p]

RECURSIVE SkipWs(_, _)
SkipWs(s, i) ==
    IF i <= Len(s) /\ s[i] \in JsonWhitespace THEN SkipWs(s, i + 1) ELSE i

RECURSIVE DigitsEnd(_, _)
\* the index after the run of digits that starts at i
DigitsEnd(s, i) ==
    IF i <= Len(s) /\ s[i] \in Digits THEN DigitsEnd(s, i + 1) ELSE i

HasAt(s, i, word) ==
    /\ i + Len(word) - 1 <= Len(s)
    /\ \A k \in 1..Len(word) : s[i + k - 1] = word[k]

\* a string token whose opening quote is at i; a control character inside
\* it is an error
ParseString(s, i) ==
    IF \E j \in (i + 1)..Len(s) : s[j] = "\""
    THEN LET j == CHOOSE j \in (i + 1)..Len(s) :
                      s[j] = "\"" /\ \A k \in (i + 1)..(j - 1) : s[k] # "\""
         IN  IF \E k \in (i + 1)..(j - 1) : s[k] \in {"\n", "\t", "\r"}
             THEN ParseFail
             ELSE ParseOk(StrVal(SubSeq(s, i + 1, j - 1)), j + 1)
    ELSE ParseFail

\* a number token whose first digit is at i: 0 or a run of digits not
\* starting with 0, then an optional fraction
ParseNumber(s, i) ==
    LET intEnd == IF s[i] = "0" THEN i + 1 ELSE DigitsEnd(s, i)
        fracEnd == IF intEnd < Len(s) /\ s[intEnd] = "." /\ s[intEnd + 1] \in Digits
                   THEN DigitsEnd(s, intEnd + 1)
                   ELSE intEnd
    IN  ParseOk(NumVal(SubSeq(s, i, fracEnd - 1)), fracEnd)

RECURSIVE ParseValue(_, _)
RECURSIVE ParseMembers(_, _, _)
RECURSIVE ParseElements(_, _, _)

\* the members of an object after `{` or `,`, with i at the key's quote
ParseMembers(s, i, acc) ==
    IF i > Len(s) \/ s[i] # "\"" THEN ParseFail
    ELSE LET k == ParseString(s, i) IN
    IF ~k.ok THEN ParseFail
    ELSE LET c == SkipWs(s, k.pos) IN
    IF c > Len(s) \/ s[c] # ":" THEN ParseFail
    ELSE LET v == ParseValue(s, SkipWs(s, c + 1)) IN
    IF ~v.ok THEN ParseFail
    ELSE LET e == SkipWs(s, v.pos)
             next == DictSet(acc, k.val.s, v.val) IN
    IF e > Len(s) THEN ParseFail
    ELSE IF s[e] = "," THEN ParseMembers(s, SkipWs(s, e + 1), next)
    ELSE IF s[e] = "}" THEN ParseOk(DictVal(next), e + 1)
    ELSE ParseFail

\* the elements of an array after `[` or `,`, with i at the element
ParseElements(s, i, acc) ==
    LET v == ParseValue(s, i) IN
    IF ~v.ok THEN ParseFail
    ELSE LET e == SkipWs(s, v.pos)
             next == Append(acc, <<<<>>, v.val>>) IN
    IF e > Len(s) THEN ParseFail
    ELSE IF s[e] = "," THEN ParseElements(s, SkipWs(s, e + 1), next)
    ELSE IF s[e] = "]" THEN ParseOk(ListVal(next), e + 1)
    ELSE ParseFail

\* the value that starts at i (whitespace already skipped)
ParseValue(s, i) ==
    IF i > Len(s) THEN ParseFail
    ELSE IF s[i] = "{" THEN
        LET j == SkipWs(s, i + 1) IN
        IF j <= Len(s) /\ s[j] = "}" THEN ParseOk(DictVal(<<>>), j + 1)
        ELSE ParseMembers(s, j, <<>>)
    ELSE IF s[i] = "[" THEN
        LET j == SkipWs(s, i + 1) IN
        IF j <= Len(s) /\ s[j] = "]" THEN ParseOk(ListVal(<<>>), j + 1)
        ELSE ParseElements(s, j, <<>>)
    ELSE IF s[i] = "\"" THEN ParseString(s, i)
    ELSE IF s[i] \in Digits THEN ParseNumber(s, i)
    ELSE IF HasAt(s, i, NullLiteral) THEN ParseOk(NoneVal, i + Len(NullLiteral))
    ELSE IF HasAt(s, i, TrueLiteral) THEN ParseOk(BoolVal(TRUE), i + Len(TrueLiteral))
    ELSE IF HasAt(s, i, FalseLiteral) THEN ParseOk(BoolVal(FALSE), i + Len(FalseLiteral))
    ELSE ParseFail

\* json.loads(s): [ok |-> FALSE] stands for json.JSONDecodeError
JsonLoads(s) ==
    LET r == ParseValue(s, SkipWs(s, 1)) IN
    IF r.ok /\ SkipWs(s, r.pos) = Len(s) + 1 THEN r ELSE ParseFail

-----------------------------------------------------------------------------
(* Each specification below runs one function of the program; the          *)
(* variables of the other functions stay at these values.                  *)

\* the number of messages handled at once
NumRequests == 2

Requests == 1..NumRequests

IdleExtract ==
    /\ response_text = NoneVal
    /\ user_text = NoneVal
    /\ epc = "idle"
    /\ data = NoneVal
    /\ raised = ""
    /\ stages = <<>>
    /\ data2 = NoneVal

IdleInput ==
    /\ news_text = <<>>
    /\ image_source = NoneVal
    /\ cpc = "idle"
    /\ image_bytes = "none"
    /\ news_input = NoneVal

IdleFormat ==
    /\ json_data = NoneVal
    /\ fpc = "idle"
    /\ formatted_text = <<>>

IdleBot ==
    /\ msg = [r \in Requests |-> [text |-> NoneVal, photo |-> FALSE]]
    /\ pc = [r \in Requests |-> "idle"]
    /\ frames = [r \in Requests |-> [user_message |-> NoneVal, image_path |-> NoneVal]]
    /\ replies = [r \in Requests |-> <<>>]
    /\ sent = [r \in Requests |-> <<>>]
    /\ ai = [r \in Requests |-> [kind |-> "none", text |-> NoneVal]]
    /\ fetch = [r \in Requests |-> "none"]
    /\ touched = [r \in Requests |-> FALSE]

-----------------------------------------------------------------------------
(* Inputs of extract_json_from_response.                                   *)

\* {"verdict":"Fake","confidence":0.85,"reason":"misleading","sources":{"Reuters":"123"}}
BodyScenario ==
    <<"{","\"","v","e","r","d","i","c","t","\"",":","\"","F","a","k","e","\"",",","\"","c","o","n","f","i","d","e","n","c","e","\"",":","0",".","8","5",",","\"","r","e","a","s","o","n","\"",":","\"","m","i","s","l","e","a","d","i","n","g","\"",",","\"","s","o","u","r","c","e","s","\"",":","{","\"","R","e","u","t","e","r","s","\"",":","\"","1","2","3","\"","}","}">>

\* {"verdict":"Real","confidence":1,"reason":"ok","sources":{}}
BodyEmptySources ==
    <<"{","\"","v","e","r","d","i","c","t","\"",":","\"","R","e","a","l","\"",",","\"","c","o","n","f","i","d","e","n","c","e","\"",":","1",",","\"","r","e","a","s","o","n","\"",":","\"","o","k","\"",",","\"","s","o","u","r","c","e","s","\"",":","{","}","}">>

\* {"sources":{"BBC":"https://bbc.com/x","A B":"http","N":42,"":"ftp://x.y/z"}}
BodyMixedLinks ==
    <<"{","\"","s","o","u","r","c","e","s","\"",":","{","\"","B","B","C","\"",":","\"","h","t","t","p","s",":","/","/","b","b","c",".","c","o","m","/","x","\"",",","\"","A"," ","B","\"",":","\"","h","t","t","p","\"",",","\"","N","\"",":","4","2",",","\"","\"",":","\"","f","t","p",":","/","/","x",".","y","/","z","\"","}","}">>

\* {"sources": {" T ":null,"L":["http://a"],"D":{"u":"http://a"},"B":true,"H":"http://","Z":"12345"}}
BodyOddLinks ==
    <<"{","\"","s","o","u","r","c","e","s","\"",":"," ","{","\""," ","T"," ","\"",":","n","u","l","l",",","\"","L","\"",":","[","\"","h","t","t","p",":","/","/","a","\"","]",",","\"","D","\"",":","{","\"","u","\"",":","\"","h","t","t","p",":","/","/","a","\"","}",",","\"","B","\"",":","t","r","u","e",",","\"","H","\"",":","\"","h","t","t","p",":","/","/","\"",",","\"","Z","\"",":","\"","1","2","3","4","5","\"","}","}">>

\* {"sources":["http://a"]}
BodySourcesList ==
    <<"{","\"","s","o","u","r","c","e","s","\"",":","[","\"","h","t","t","p",":","/","/","a","\"","]","}">>

\* {"verdict":"Fake"}
BodyNoSources ==
    <<"{","\"","v","e","r","d","i","c","t","\"",":","\"","F","a","k","e","\"","}">>

\* {"sources":{"A":"1","C":"http://c.d","A":"http://ok.example"}}
BodyDuplicateKey ==
    <<"{","\"","s","o","u","r","c","e","s","\"",":","{","\"","A","\"",":","\"","1","\"",",","\"","C","\"",":","\"","h","t","t","p",":","/","/","c",".","d","\"",",","\"","A","\"",":","\"","h","t","t","p",":","/","/","o","k",".","e","x","a","m","p","l","e","\"","}","}">>

\* [1]
BodyArray ==
    <<"[","1","]">>

\* 123
BodyNumber ==
    <<"1","2","3">>

\* "Fake"
BodyString ==
    <<"\"","F","a","k","e","\"">>

\* null
BodyNull ==
    <<"n","u","l","l">>

\* {}
BodyEmptyObject ==
    <<"{","}">>

\* not json at all
BodyProse ==
    <<"n","o","t"," ","j","s","o","n"," ","a","t"," ","a","l","l">>

\* }{
BodyReversedBraces ==
    <<"}","{">>

\* {"sources":{"A":"1"}
BodyUnclosed ==
    <<"{","\"","s","o","u","r","c","e","s","\"",":","{","\"","A","\"",":","\"","1","\"","}">>

\* (the empty string)
BodyEmpty ==
    <<>>

Bodies ==
    {BodyScenario,
     BodyEmptySources,
     BodyMixedLinks,
     BodyOddLinks,
     BodySourcesList,
     BodyNoSources,
     BodyDuplicateKey,
     BodyArray,
     BodyNumber,
     BodyString,
     BodyNull,
     BodyEmptyObject,
     BodyProse,
     BodyReversedBraces,
     BodyUnclosed,
     BodyEmpty}

\* ''
PreNone ==
    <<>>

\* ' \n'
PreSpace ==
    <<" ","\n">>

\* 'Here you go: '
PreProse ==
    <<"H","e","r","e"," ","y","o","u"," ","g","o",":"," ">>

\* '{ '
PreBrace ==
    <<"{"," ">>

\* ''
PostNone ==
    <<>>

\* '  thanks'
PostThanks ==
    <<" "," ","t","h","a","n","k","s">>

\* ' }'
PostBrace ==
    <<" ","}">>

\* '\n'
PostNewline ==
    <<"\n">>

Prologues == {PreNone, PreSpace, PreProse, PreBrace}

Epilogues == {PostNone, PostThanks, PostBrace, PostNewline}

\* ''
TextEmpty ==
    <<>>

\* 'vaccines cause X'
TextClaim ==
    <<"v","a","c","c","i","n","e","s"," ","c","a","u","s","e"," ","X">>

\* ' lead  trail \n'
TextPadded ==
    <<" ","l","e","a","d"," "," ","t","r","a","i","l"," ","\n">>

\* the length of the longest caller text
LongLen == 52

\* a caller text longer than the 50 characters a search query keeps, with a
\* space at every tenth position (so at the 50th)
TextLong == [i \in 1..LongLen |-> IF i % 10 = 0 THEN " " ELSE "v"]

UserTexts == {TextEmpty, TextClaim, TextPadded, TextLong}

\* what the AI service hands over: a str, or None when the reply has no text
Responses ==
    {StrVal(pre \o body \o post) :
        pre \in Prologues, body \in Bodies, post \in Epilogues} \cup {NoneVal}

\* the second argument: a str; None stands for an argument that is no str
UserTextValues == {StrVal(t) : t \in UserTexts} \cup {NoneVal}

-----------------------------------------------------------------------------
(* extract_json_from_response: the link-repair rule.                       *)

\* user_text[:50]
PrefixLen == 50

\* len(str(link)) < 5
MinLinkLen == 5

\* the test with `and` where the code has `or`
IsInvalidLinkAnd(link) ==
    LET t == StrOf(link) IN
        /\ ~(StartsWith(t, HttpPrefix) \/ StartsWith(t, HttpsPrefix))
        /\ (IsDigit(t) \/ Len(t) < MinLinkLen)

\* not str(link).startswith(('http://', 'https://')) or str(link).isdigit()
\*     or len(str(link)) < 5
IsInvalidLink(link) ==
    LET t == StrOf(link) IN
        \/ ~(StartsWith(t, HttpPrefix) \/ StartsWith(t, HttpsPrefix))
        \/ IsDigit(t)
        \/ Len(t) < MinLinkLen

\* the query without .strip()
SearchQueryNoStrip(title, text) ==
    ReplaceSpaces(title \o <<" ">> \o Prefix(text, PrefixLen))

\* f"{title} {user_text[:50]}".strip().replace(' ', '+')
SearchQuery(title, text) ==
    ReplaceSpaces(Strip(title \o <<" ">> \o Prefix(text, PrefixLen)))

\* the URL without its scheme
SearchUrlNoScheme(title, text) ==
    SubSeq(SearchUrlPrefix, Len(HttpsPrefix) + 1, Len(SearchUrlPrefix))
        \o SearchQuery(title, text)

\* f"https://www.google.com/search?q={search_query}"
SearchUrl(title, text) == SearchUrlPrefix \o SearchQuery(title, text)

\* isinstance(data, dict) and "sources" in data
\*     and isinstance(data["sources"], dict)
HasSourcesDict(d) ==
    /\ IsDict(d)
    /\ DictHas(d, SourcesKey)
    /\ IsDict(DictAt(d, SourcesKey))

RECURSIVE RepairFrom(_, _, _)
\* the for loop over data["sources"].items() from entry i on: an invalid
\* link is overwritten under its own title, so no entry moves
RepairFrom(entries, i, text) ==
    IF i > Len(entries) THEN entries
    ELSE IF IsInvalidLink(entries[i][2])
         THEN RepairFrom(DictSet(entries, entries[i][1],
                                 StrVal(SearchUrl(entries[i][1], text))),
                         i + 1, text)
         ELSE RepairFrom(entries, i + 1, text)

\* the record after the `if isinstance(...)` block
RepairRecord(d, text) ==
    IF HasSourcesDict(d)
    THEN DictVal(DictSet(d.items, SourcesKey,
                         DictVal(RepairFrom(DictAt(d, SourcesKey).items, 1, text))))
    ELSE d

\* user_text[:50] raises TypeError for a user_text that is no str; it is
\* evaluated at the first invalid link
RepairRaises(d, ut) ==
    /\ ~IsStr(ut)
    /\ HasSourcesDict(d)
    /\ \E i \in 1..Len(DictAt(d, SourcesKey).items) :
            IsInvalidLink(DictAt(d, SourcesKey).items[i][2])

\* start != -1 and end != -1 and start < end
BracesFound(s) ==
    /\ Find(s, "{") # -1
    /\ RFind(s, "}") # -1
    /\ Find(s, "{") < RFind(s, "}")

\* response_text[start:end + 1]
BraceSubstring(s) == Slice(s, Find(s, "{"), RFind(s, "}"))

-----------------------------------------------------------------------------
(* extract_json_from_response: one action per step of the function.        *)

InitExtract ==
    /\ response_text \in Responses
    /\ user_text \in UserTextValues
    /\ epc = "call"
    /\ data = NoneVal
    /\ raised = ""
    /\ stages = <<>>
    /\ data2 = NoneVal
    /\ IdleInput /\ IdleFormat /\ IdleBot

\* json.loads(None): TypeError, which `except json.JSONDecodeError` lets through
LoadsTypeError ==
    /\ epc = "call"
    /\ ~IsStr(response_text)
    /\ epc' = "raised"
    /\ raised' = "TypeError"
    /\ stages' = <<"whole">>
    /\ UNCHANGED <<response_text, user_text, data, data2>>
    /\ UNCHANGED <<inputVars, formatVars, botVars>>

\* data = json.loads(response_text) succeeds
LoadsWhole ==
    /\ epc = "call"
    /\ IsStr(response_text)
    /\ JsonLoads(response_text.s).ok
    /\ data' = JsonLoads(response_text.s).val
    /\ stages' = <<"whole">>
    /\ epc' = "repair_whole"
    /\ UNCHANGED <<response_text, user_text, raised, data2>>
    /\ UNCHANGED <<inputVars, formatVars, botVars>>

\* json.loads(response_text) raises json.JSONDecodeError
LoadsWholeFails ==
    /\ epc = "call"
    /\ IsStr(response_text)
    /\ ~JsonLoads(response_text.s).ok
    /\ stages' = <<"whole">>
    /\ epc' = "except"
    /\ UNCHANGED <<response_text, user_text, data, raised, data2>>
    /\ UNCHANGED <<inputVars, formatVars, botVars>>

\* the repair block of the try body, then `return data`
RepairWhole ==
    /\ epc = "repair_whole"
    /\ ~RepairRaises(data, user_text)
    /\ data' = RepairRecord(data, user_text.s)
    /\ epc' = "returned"
    /\ UNCHANGED <<response_text, user_text, raised, stages, data2>>
    /\ UNCHANGED <<inputVars, formatVars, botVars>>

\* the repair block of the try body raises; no handler of the try matches
RepairWholeRaises ==
    /\ epc = "repair_whole"
    /\ RepairRaises(data, user_text)
    /\ raised' = "TypeError"
    /\ epc' = "raised"
    /\ UNCHANGED <<response_text, user_text, data, stages, data2>>
    /\ UNCHANGED <<inputVars, formatVars, botVars>>

\* the handler finds no `{` before a `}`: return None
NoBraces ==
    /\ epc = "except"
    /\ ~BracesFound(response_text.s)
    /\ data' = NoneVal
    /\ epc' = "returned"
    /\ UNCHANGED <<response_text, user_text, raised, stages, data2>>
    /\ UNCHANGED <<inputVars, formatVars, botVars>>

\* data = json.loads(response_text[start:end + 1]) succeeds
LoadsSubstring ==
    /\ epc = "except"
    /\ BracesFound(response_text.s)
    /\ JsonLoads(BraceSubstring(response_text.s)).ok
    /\ data' = JsonLoads(BraceSubstring(response_text.s)).val
    /\ stages' = Append(stages, "substring")
    /\ epc' = "repair_substring"
    /\ UNCHANGED <<response_text, user_text, raised, data2>>
    /\ UNCHANGED <<inputVars, formatVars, botVars>>

\* json.loads of the substring raises: the bare except returns None
LoadsSubstringFails ==
    /\ epc = "except"
    /\ BracesFound(response_text.s)
    /\ ~JsonLoads(BraceSubstring(response_text.s)).ok
    /\ data' = NoneVal
    /\ stages' = Append(stages, "substring")
    /\ epc' = "returned"
    /\ UNCHANGED <<response_text, user_text, raised, data2>>
    /\ UNCHANGED <<inputVars, formatVars, botVars>>

\* the repair block of the inner try, then `return data`
RepairSubstring ==
    /\ epc = "repair_substring"
    /\ ~RepairRaises(data, user_text)
    /\ data' = RepairRecord(data, user_text.s)
    /\ epc' = "returned"
    /\ UNCHANGED <<response_text, user_text, raised, stages, data2>>
    /\ UNCHANGED <<inputVars, formatVars, botVars>>

\* the repair block of the inner try raises: the bare except returns None
RepairSubstringCaught ==
    /\ epc = "repair_substring"
    /\ RepairRaises(data, user_text)
    /\ data' = NoneVal
    /\ epc' = "returned"
    /\ UNCHANGED <<response_text, user_text, raised, stages, data2>>
    /\ UNCHANGED <<inputVars, formatVars, botVars>>

\* the link-repair rule applied once more to the returned record, with any
\* caller text
RepairAgain ==
    /\ epc = "returned"
    /\ HasSourcesDict(data)
    /\ \E again \in UserTexts : data2' = RepairRecord(data, again)
    /\ epc' = "repaired_again"
    /\ UNCHANGED <<response_text, user_text, data, raised, stages>>
    /\ UNCHANGED <<inputVars, formatVars, botVars>>

NextExtract ==
    \/ LoadsTypeError
    \/ LoadsWhole
    \/ LoadsWholeFails
    \/ RepairWhole
    \/ RepairWholeRaises
    \/ NoBraces
    \/ LoadsSubstring
    \/ LoadsSubstringFails
    \/ RepairSubstring
    \/ RepairSubstringCaught
    \/ RepairAgain

SpecExtract == InitExtract /\ [][NextExtract]_vars

\* extract_json_from_response as a function of its arguments: the exception
\* that leaves it ("" for none) and the value it returns
ExtractOutcome(response, ut) ==
    IF ~IsStr(response) THEN [raised |-> "TypeError", val |-> NoneVal]
    ELSE IF JsonLoads(response.s).ok
    THEN IF RepairRaises(JsonLoads(response.s).val, ut)
         THEN [raised |-> "TypeError", val |-> NoneVal]
         ELSE [raised |-> "",
               val |-> RepairRecord(JsonLoads(response.s).val, ut.s)]
    ELSE IF /\ BracesFound(response.s)
            /\ JsonLoads(BraceSubstring(response.s)).ok
            /\ ~RepairRaises(JsonLoads(BraceSubstring(response.s)).val, ut)
    THEN [raised |-> "",
          val |-> RepairRecord(JsonLoads(BraceSubstring(response.s)).val, ut.s)]
    ELSE [raised |-> "", val |-> NoneVal]

\* 'Reuters'
TitleReuters ==
    <<"R","e","u","t","e","r","s">>

\* 'https://www.google.com/search?q=Reuters+vaccines+cause+X'
ScenarioUrl ==
    <<"h","t","t","p","s",":","/","/","w","w","w",".","g","o","o","g","l","e",".","c","o","m","/","s","e","a","r","c","h","?","q","=","R","e","u","t","e","r","s","+","v","a","c","c","i","n","e","s","+","c","a","u","s","e","+","X">>

-----------------------------------------------------------------------------
(* Properties of extract_json_from_response.  The definitions below state  *)
(* what is expected of the function without using its steps.               *)

Returned == epc \in {"returned", "repaired_again"}

\* the 1-based positions of the braces
OpenBraces(s) == {i \in 1..Len(s) : s[i] = "{"}
CloseBraces(s) == {i \in 1..Len(s) : s[i] = "}"}
FirstOpen(s) == CHOOSE i \in OpenBraces(s) : \A j \in OpenBraces(s) : i <= j
LastClose(s) == CHOOSE i \in CloseBraces(s) : \A j \in CloseBraces(s) : j <= i

\* a first `{` and a last `}` exist, the first strictly before the last
BracePair(s) ==
    /\ OpenBraces(s) # {}
    /\ CloseBraces(s) # {}
    /\ FirstOpen(s) < LastClose(s)

WholeParses == IsStr(response_text) /\ JsonLoads(response_text.s).ok

SubstringParses ==
    /\ IsStr(response_text)
    /\ ~JsonLoads(response_text.s).ok
    /\ BracePair(response_text.s)
    /\ JsonLoads(SubSeq(response_text.s, FirstOpen(response_text.s),
                        LastClose(response_text.s))).ok

\* the value the response parses into, by either stage
Parsed ==
    IF WholeParses THEN JsonLoads(response_text.s).val
    ELSE JsonLoads(SubSeq(response_text.s, FirstOpen(response_text.s),
                          LastClose(response_text.s))).val

\* the response parses into an object whose `sources` is an object
ParsedWithSources ==
    /\ WholeParses \/ SubstringParses
    /\ Parsed.kind = "dict"
    /\ \E i \in 1..Len(Parsed.items) :
          Parsed.items[i][1] = SourcesKey /\ Parsed.items[i][2].kind = "dict"

SourcesOf(d) ==
    d.items[CHOOSE i \in 1..Len(d.items) : d.items[i][1] = SourcesKey][2].items

Begins(chars, start) ==
    Len(chars) >= Len(start) /\ SubSeq(chars, 1, Len(start)) = start

IsUrl(chars) == Begins(chars, HttpPrefix) \/ Begins(chars, HttpsPrefix)

\* a string starting with http:// or https://, not all digits, of length >= 5
ValidLink(v) ==
    /\ v.kind = "str"
    /\ IsUrl(v.s)
    /\ \E i \in 1..Len(v.s) : v.s[i] \notin Digits
    /\ Len(v.s) >= 5

\* C1: when the response parses (by either stage) into an object whose
\* `sources` is an object and user_text is a string, every value of the
\* returned `sources` is a string starting with http:// or https://; a value
\* that was a valid link is returned unchanged and every other value, a
\* non-string one included, is a URL starting with the search prefix.
RepairedLinksAreUrls ==
    (Returned /\ IsStr(user_text) /\ ParsedWithSources) =>
        /\ data.kind = "dict"
        /\ LET before == SourcesOf(Parsed)
               after == SourcesOf(data)
           IN  /\ Len(after) = Len(before)
               /\ \A i \in 1..Len(before) :
                    /\ after[i][1] = before[i][1]
                    /\ after[i][2].kind = "str"
                    /\ IsUrl(after[i][2].s)
                    /\ IF ValidLink(before[i][2])
                       THEN after[i][2] = before[i][2]
                       ELSE Begins(after[i][2].s, SearchUrlPrefix)

\* a record came back in which a valid link, an invalid string and a
\* non-string value stood side by side
RepairedLinksSeen ==
    /\ Returned /\ IsStr(user_text) /\ ParsedWithSources
    /\ \E i, j, k \in 1..Len(SourcesOf(Parsed)) :
          /\ ValidLink(SourcesOf(Parsed)[i][2])
          /\ SourcesOf(Parsed)[j][2].kind = "str"
          /\ ~ValidLink(SourcesOf(Parsed)[j][2])
          /\ SourcesOf(Parsed)[k][2].kind \in {"num", "null", "list", "dict", "bool"}

\* C2: for a response string (and a user_text string) the whole string is
\* parsed first and, when that succeeds, its repaired value is returned and
\* the substring stage is not entered; otherwise the substring from the
\* first `{` to the last `}` is parsed when the first is strictly before the
\* last, and its repaired value is returned when that parse succeeds; in
\* every remaining case None is returned.
ExtractFallbackOrder ==
    (Returned /\ IsStr(response_text) /\ IsStr(user_text)) =>
        IF WholeParses
        THEN /\ data = RepairRecord(JsonLoads(response_text.s).val, user_text.s)
             /\ stages = <<"whole">>
        ELSE IF SubstringParses
        THEN /\ data = RepairRecord(Parsed, user_text.s)
             /\ stages = <<"whole", "substring">>
        ELSE data = NoneVal

\* the substring stage succeeded on a response with text after its last `}`
\* and more than one `}`
SubstringStageSeen ==
    /\ Returned /\ IsStr(response_text) /\ IsStr(user_text)
    /\ SubstringParses
    /\ data # NoneVal
    /\ Cardinality(CloseBraces(response_text.s)) > 1
    /\ LastClose(response_text.s) < Len(response_text.s)

\* C3: extract_json_from_response never raises: for every response (a
\* string or None) and every user_text the call returns, and a response that
\* is no JSON and has no `{`...`}` pair returns None.
ExtractNeverRaises ==
    /\ epc # "raised"
    /\ (Returned /\ IsStr(response_text) /\ ~WholeParses
            /\ ~BracePair(response_text.s)) => data = NoneVal

\* leading and trailing whitespace: the longest runs at both ends
LeadingRun(s) ==
    CHOOSE a \in 0..Len(s) :
        /\ \A i \in 1..a : s[i] \in Whitespace
        /\ a = Len(s) \/ s[a + 1] \notin Whitespace
TrailingRun(s) ==
    CHOOSE b \in 0..Len(s) :
        /\ \A i \in (Len(s) - b + 1)..Len(s) : s[i] \in Whitespace
        /\ b = Len(s) \/ s[Len(s) - b] \notin Whitespace
Trimmed(s) ==
    IF LeadingRun(s) = Len(s) THEN <<>>
    ELSE SubSeq(s, LeadingRun(s) + 1, Len(s) - TrailingRun(s))
PlusForSpace(s) == [i \in 1..Len(s) |-> IF s[i] = " " THEN "+" ELSE s[i]]
First50(s) == [i \in 1..(IF Len(s) > 50 THEN 50 ELSE Len(s)) |-> s[i]]

\* the query of the claim: title, one space, the first 50 characters of the
\* text, trimmed, spaces replaced by +
QueryOf(title, text) == PlusForSpace(Trimmed(title \o <<" ">> \o First50(text)))

\* C4: a replaced link is the search prefix followed by the query made of
\* the title, one space and the first 50 characters of user_text, trimmed
\* of leading and trailing whitespace, every remaining space replaced by +;
\* with an empty user_text the query is made of the title alone (trimmed,
\* spaces replaced by +); title Reuters, link 123 and user text
\* "vaccines cause X" give
\* https://www.google.com/search?q=Reuters+vaccines+cause+X.
SynthesizedSearchUrl ==
    (Returned /\ IsStr(user_text) /\ ParsedWithSources) =>
        /\ data.kind = "dict"
        /\ Len(SourcesOf(data)) = Len(SourcesOf(Parsed))
        /\ \A i \in 1..Len(SourcesOf(Parsed)) :
              ~ValidLink(SourcesOf(Parsed)[i][2]) =>
                 LET title == SourcesOf(Parsed)[i][1]
                     url == SourcesOf(data)[i][2].s
                 IN  /\ url = SearchUrlPrefix \o QueryOf(title, user_text.s)
                     /\ user_text.s = <<>> =>
                            url = SearchUrlPrefix \o PlusForSpace(Trimmed(title))
                     /\ (title = TitleReuters /\ user_text.s = TextClaim) =>
                            url = ScenarioUrl

\* links were replaced with a user_text longer than 50 characters, under a
\* title with spaces around it
LongTextQuerySeen ==
    /\ Returned /\ IsStr(user_text) /\ ParsedWithSources
    /\ Len(user_text.s) > 50
    /\ \E i \in 1..Len(SourcesOf(Parsed)) :
          /\ ~ValidLink(SourcesOf(Parsed)[i][2])
          /\ Len(SourcesOf(Parsed)[i][1]) > 0
          /\ SourcesOf(Parsed)[i][1][1] = " "

\* C7: applying the link-repair rule again, with any user_text, to a record
\* whose sources were already repaired changes no value, no key and no key
\* order.
RepairIsIdempotent ==
    epc = "repaired_again" => data2 = data

\* the rule was applied again to a record in which the first application
\* had replaced a link
SecondRepairSeen ==
    /\ epc = "repaired_again"
    /\ ParsedWithSources
    /\ \E i \in 1..Len(SourcesOf(Parsed)) : ~ValidLink(SourcesOf(Parsed)[i][2])

-----------------------------------------------------------------------------
(* create_news_input.                                                      *)

\* 'news image'
NewsImageText ==
    <<"n","e","w","s"," ","i","m","a","g","e">>

\* 'No input provided.'
NoInputText ==
    <<"N","o"," ","i","n","p","u","t"," ","p","r","o","v","i","d","e","d",".">>

\* 'Image load failed.'
ImageLoadFailedText ==
    <<"I","m","a","g","e"," ","l","o","a","d"," ","f","a","i","l","e","d",".">>

\* 'http'
SchemeHttp ==
    <<"h","t","t","p">>

\* 'https'
SchemeHttps ==
    <<"h","t","t","p","s">>

\* ''
SourceEmpty ==
    <<>>

\* 'http://h/i.jpg'
SourceHttp ==
    <<"h","t","t","p",":","/","/","h","/","i",".","j","p","g">>

\* 'https://api.telegram.org/file/photo.jpg'
SourceHttps ==
    <<"h","t","t","p","s",":","/","/","a","p","i",".","t","e","l","e","g","r","a","m",".","o","r","g","/","f","i","l","e","/","p","h","o","t","o",".","j","p","g">>

\* '/tmp/i.jpg'
SourcePath ==
    <<"/","t","m","p","/","i",".","j","p","g">>

\* 'ftp://h/i.jpg'
SourceFtp ==
    <<"f","t","p",":","/","/","h","/","i",".","j","p","g">>

\* ''
NewsEmpty ==
    <<>>

\* ' \n'
NewsBlank ==
    <<" ","\n">>

\* 'moon landing'
NewsClaim ==
    <<"m","o","o","n"," ","l","a","n","d","i","n","g">>

\* '  vaccines cause X \n'
NewsPadded ==
    <<" "," ","v","a","c","c","i","n","e","s"," ","c","a","u","s","e"," ","X"," ","\n">>

\* 'a'
NewsShort ==
    <<"a">>

ImageSources ==
    {NoneVal} \cup {StrVal(p) : p \in {SourceEmpty, SourceHttp, SourceHttps,
                                       SourcePath, SourceFtp}}

NewsTexts == {NewsEmpty, NewsBlank, NewsClaim, NewsPadded, NewsShort}

\* the value returned: a str (image FALSE), or the list
\* [image part tagged image/jpeg, text] (image TRUE)
TextInput(chars) == [image |-> FALSE, text |-> chars]
ImageInput(chars) == [image |-> TRUE, text |-> chars]

\* `if image_source:`
HasImageSource(src) == IsStr(src) /\ Len(src.s) > 0

\* urlparse(image_source).scheme for the sources of the model: the
\* characters before the first `:`, the empty string when there is none
UrlScheme(chars) ==
    IF Find(chars, ":") > 0 THEN SubSeq(chars, 1, Find(chars, ":")) ELSE <<>>

\* parsed.scheme in ("http", "https")
IsRemote(src) == UrlScheme(src.s) \in {SchemeHttp, SchemeHttps}

\* news_text.strip() if news_text.strip() else "news image"
TextPart(text) == IF Len(Strip(text)) > 0 THEN Strip(text) ELSE NewsImageText

\* news_text.strip() or "No input provided."
NoImageResult(text) ==
    TextInput(IF Len(Strip(text)) > 0 THEN Strip(text) ELSE NoInputText)

\* the handler returning what the no-image path returns
ExceptResultAsNoImage(text) == NoImageResult(text)

\* except Exception: news_text or "Image load failed."
ExceptResult(text) ==
    TextInput(IF Len(text) > 0 THEN text ELSE ImageLoadFailedText)

\* create_news_input as a function of its arguments and of what the fetch
\* or read gives ("bytes", "empty" or "error")
CreateNewsInput(text, src, outcome) ==
    IF ~HasImageSource(src) THEN NoImageResult(text)
    ELSE IF outcome = "error" THEN ExceptResult(text)
    ELSE IF outcome = "bytes" THEN ImageInput(TextPart(text))
    ELSE NoImageResult(text)

InitInput ==
    /\ news_text \in NewsTexts
    /\ image_source \in ImageSources
    /\ cpc = "call"
    /\ image_bytes = "none"
    /\ news_input = NoneVal
    /\ IdleExtract /\ IdleFormat /\ IdleBot

\* `if image_source:` is false: image_bytes stays None
NoImageSource ==
    /\ cpc = "call"
    /\ ~HasImageSource(image_source)
    /\ cpc' = "assemble"
    /\ UNCHANGED <<news_text, image_source, image_bytes, news_input>>
    /\ UNCHANGED <<extractVars, formatVars, botVars>>

\* requests.get and raise_for_status succeed; the body may be empty
FetchImage ==
    /\ cpc = "call"
    /\ HasImageSource(image_source)
    /\ IsRemote(image_source)
    /\ \E got \in {"bytes", "empty"} : image_bytes' = got
    /\ cpc' = "assemble"
    /\ UNCHANGED <<news_text, image_source, news_input>>
    /\ UNCHANGED <<extractVars, formatVars, botVars>>

\* requests.get or raise_for_status raises: the except branch returns
FetchImageFails ==
    /\ cpc = "call"
    /\ HasImageSource(image_source)
    /\ IsRemote(image_source)
    /\ image_bytes' = "error"
    /\ news_input' = ExceptResult(news_text)
    /\ cpc' = "returned"
    /\ UNCHANGED <<news_text, image_source>>
    /\ UNCHANGED <<extractVars, formatVars, botVars>>

\* open and read succeed; the file may be empty
ReadLocalFile ==
    /\ cpc = "call"
    /\ HasImageSource(image_source)
    /\ ~IsRemote(image_source)
    /\ \E got \in {"bytes", "empty"} : image_bytes' = got
    /\ cpc' = "assemble"
    /\ UNCHANGED <<news_text, image_source, news_input>>
    /\ UNCHANGED <<extractVars, formatVars, botVars>>

\* open or read raises: the except branch returns
ReadLocalFileFails ==
    /\ cpc = "call"
    /\ HasImageSource(image_source)
    /\ ~IsRemote(image_source)
    /\ image_bytes' = "error"
    /\ news_input' = ExceptResult(news_text)
    /\ cpc' = "returned"
    /\ UNCHANGED <<news_text, image_source>>
    /\ UNCHANGED <<extractVars, formatVars, botVars>>

\* `if image_bytes:` is true: return [image_part, text_part]
ReturnWithImage ==
    /\ cpc = "assemble"
    /\ image_bytes = "bytes"
    /\ news_input' = ImageInput(TextPart(news_text))
    /\ cpc' = "returned"
    /\ UNCHANGED <<news_text, image_source, image_bytes>>
    /\ UNCHANGED <<extractVars, formatVars, botVars>>

\* `if image_bytes:` is false (None or b""): return the text alone
ReturnTextOnly ==
    /\ cpc = "assemble"
    /\ image_bytes \in {"none", "empty"}
    /\ news_input' = NoImageResult(news_text)
    /\ cpc' = "returned"
    /\ UNCHANGED <<news_text, image_source, image_bytes>>
    /\ UNCHANGED <<extractVars, formatVars, botVars>>

NextInput ==
    \/ NoImageSource
    \/ FetchImage
    \/ FetchImageFails
    \/ ReadLocalFile
    \/ ReadLocalFileFails
    \/ ReturnWithImage
    \/ ReturnTextOnly

SpecInput == InitInput /\ [][NextInput]_vars

-----------------------------------------------------------------------------
(* Properties of create_news_input.                                        *)

\* the trimmed text, or the placeholder when nothing is left
TrimmedOrPlaceholder(text) ==
    [image |-> FALSE,
     text |-> IF Trimmed(text) = <<>> THEN NoInputText ELSE Trimmed(text)]

\* C5 as claimed: whenever no image bytes were obtained (no image_source,
\* or the fetch or read failed) the function returns the trimmed news_text,
\* or "No input provided." when the trimmed text is empty, the same value
\* with and without the failure.
NoBytesGivesTrimmedText ==
    (cpc = "returned" /\ image_bytes \in {"none", "empty", "error"}) =>
        news_input = TrimmedOrPlaceholder(news_text)

\* C5 as amended: the function always returns; with no image_source (or
\* empty bytes) it returns the trimmed news_text, or "No input provided."
\* when the trimmed text is empty; when the fetch or read failed it returns
\* news_text as given, untrimmed, or "Image load failed." when news_text is
\* empty.
NoBytesResult ==
    /\ cpc \in {"call", "assemble", "returned"}
    /\ (cpc = "returned" /\ image_bytes \in {"none", "empty"}) =>
          news_input = TrimmedOrPlaceholder(news_text)
    /\ (cpc = "returned" /\ image_bytes = "error") =>
          news_input = [image |-> FALSE,
                        text |-> IF news_text = <<>> THEN ImageLoadFailedText
                                 ELSE news_text]

\* a fetch failed on a text with whitespace around it
FailedFetchSeen ==
    /\ cpc = "returned"
    /\ image_bytes = "error"
    /\ news_text # <<>>
    /\ Trimmed(news_text) # news_text
    /\ Trimmed(news_text) # <<>>

-----------------------------------------------------------------------------
(* json_to_formatted_text.                                                 *)

\* 'verdict'
VerdictKey ==
    <<"v","e","r","d","i","c","t">>

\* 'confidence'
ConfidenceKey ==
    <<"c","o","n","f","i","d","e","n","c","e">>

\* 'reason'
ReasonKey ==
    <<"r","e","a","s","o","n">>

\* 'input'
InputKey ==
    <<"i","n","p","u","t">>

\* 'Unknown'
UnknownText ==
    <<"U","n","k","n","o","w","n">>

\* 'Verdict:  '
VerdictLabel ==
    <<"V","e","r","d","i","c","t",":"," "," ">>

\* 'Confidence: '
ConfidenceLabel ==
    <<"C","o","n","f","i","d","e","n","c","e",":"," ">>

\* 'Reason: '
ReasonLabel ==
    <<"R","e","a","s","o","n",":"," ">>

\* ' \n\n'
LineEnd ==
    <<" ","\n","\n">>

\* '% \n\n'
PercentLineEnd ==
    <<"%"," ","\n","\n">>

\* 'Sources:\n'
SourcesHeader ==
    <<"S","o","u","r","c","e","s",":","\n">>

\* 'Fake'
TextFake ==
    <<"F","a","k","e">>

\* 'mixed'
TextMixed ==
    <<"m","i","x","e","d">>

\* 'high'
TextHigh ==
    <<"h","i","g","h">>

\* 'x y'
TextInputField ==
    <<"x"," ","y">>

\* 'BBC'
TitleBBC ==
    <<"B","B","C">>

\* 'https://bbc.com/x'
LinkBBC ==
    <<"h","t","t","p","s",":","/","/","b","b","c",".","c","o","m","/","x">>

\* 'A B'
TitleSpaced ==
    <<"A"," ","B">>

\* '123'
LinkDigits ==
    <<"1","2","3">>

\* 'N'
TitleN ==
    <<"N">>

\* 'http://a'
LinkPlain ==
    <<"h","t","t","p",":","/","/","a">>

\* '0.85'
NumFraction ==
    <<"0",".","8","5">>

\* '1'
NumOne ==
    <<"1">>

\* '0'
NumZero ==
    <<"0">>

\* '42'
NumFortyTwo ==
    <<"4","2">>

\* the truth value of a Python value (`if sources:`, `if data:`)
Truthy(v) ==
    CASE v.kind = "null" -> FALSE
      [] v.kind = "bool" -> v.s = TrueText
      [] v.kind = "num"  -> \E i \in 1..Len(v.s) : v.s[i] \in Digits \ {"0"}
      [] v.kind = "str"  -> Len(v.s) > 0
      [] v.kind = "list" -> Len(v.items) > 0
      [] v.kind = "dict" -> Len(v.items) > 0

\* d.get(key) with no default: None for a missing key
DictGetNone(d, key, default) ==
    IF DictHas(d, key) THEN DictAt(d, key) ELSE NoneVal

\* d.get(key, default)
DictGet(d, key, default) ==
    IF DictHas(d, key) THEN DictAt(d, key) ELSE default

RECURSIVE CharsToNat(_)
\* int(s) for a run of digits
CharsToNat(s) ==
    IF Len(s) = 0 THEN 0
    ELSE 10 * CharsToNat(SubSeq(s, 1, Len(s) - 1))
         + (CHOOSE d \in 0..9 :
                <<"0", "1", "2", "3", "4", "5", "6", "7", "8", "9">>[d + 1] = s[Len(s)])

RECURSIVE NatToChars(_)
\* str(n) for n >= 0
NatToChars(n) ==
    IF n < 10 THEN <<(<<"0", "1", "2", "3", "4", "5", "6", "7", "8", "9">>)[n + 1]>>
    ELSE NatToChars(n \div 10) \o NatToChars(n % 10)

\* int(x * 100) for the number written s; exact for the numbers of the
\* model, whose product with 100 is a whole number in floating point too
Times100(s) ==
    LET dot == Find(s, ".")
        whole == IF dot = -1 THEN s ELSE SubSeq(s, 1, dot)
        frac == IF dot = -1 THEN <<>> ELSE SubSeq(s, dot + 2, Len(s))
        two == SubSeq(frac \o <<"0", "0">>, 1, 2)
    IN  CharsToNat(whole) * 100 + CharsToNat(two)

\* int(confidence * 100) if isinstance(confidence, (int, float)) else
\* confidence, as the f-string prints it; a bool is an int
ConfidencePercent(confidence) ==
    CASE confidence.kind = "num" -> NatToChars(Times100(confidence.s))
      [] confidence.kind = "bool" ->
            NatToChars(IF confidence.s = TrueText THEN 100 ELSE 0)
      [] OTHER -> StrOf(confidence)

\* one line of the Sources section
SourceLine(title, source, record) ==
    IF IsStr(source) /\ (StartsWith(source.s, HttpPrefix) \/ StartsWith(source.s, HttpsPrefix))
    THEN <<"-", " ", "[">> \o title \o <<"]", "(">> \o source.s \o <<")", "\n">>
    ELSE <<"-", " ", "[">> \o title \o <<"]", "(">> \o SearchUrlPrefix
            \o ReplaceSpaces(Strip(title \o <<" ">>
                    \o StrOf(DictGet(record, InputKey, StrVal(<<>>)))))
            \o <<")", "\n">>

RECURSIVE Concat(_)
Concat(parts) == IF Len(parts) = 0 THEN <<>> ELSE parts[1] \o Concat(Tail(parts))

\* json_to_formatted_text raises AttributeError: json_data has no .get, or
\* a truthy `sources` has no .items
FormatRaises(record) ==
    \/ ~IsDict(record)
    \/ /\ Truthy(DictGet(record, SourcesKey, DictVal(<<>>)))
       /\ ~IsDict(DictGet(record, SourcesKey, DictVal(<<>>)))

\* the text json_to_formatted_text returns
FormatText(record) ==
    LET verdict == DictGet(record, VerdictKey, StrVal(UnknownText))
        confidence == DictGet(record, ConfidenceKey, NumVal(NumZero))
        reason == DictGet(record, ReasonKey, StrVal(<<>>))
        sources == DictGet(record, SourcesKey, DictVal(<<>>))
    IN  VerdictLabel \o StrOf(verdict) \o LineEnd
        \o ConfidenceLabel \o ConfidencePercent(confidence) \o PercentLineEnd
        \o ReasonLabel \o StrOf(reason) \o LineEnd
        \o (IF Truthy(sources)
            THEN SourcesHeader
                 \o Concat([i \in 1..Len(sources.items) |->
                        SourceLine(sources.items[i][1], sources.items[i][2], record)])
            ELSE <<>>)

\* a field that may be missing from the record
Missing == [kind |-> "missing", s |-> <<>>, items |-> <<>>]
Field(key, v) == IF v = Missing THEN <<>> ELSE << <<key, v>> >>

FormatVerdicts == {Missing, StrVal(TextFake)}
FormatConfidences ==
    {Missing, NumVal(NumFraction), NumVal(NumOne), StrVal(TextHigh), BoolVal(TRUE)}
FormatReasons == {Missing, StrVal(TextMixed)}
FormatSources ==
    {Missing,
     DictVal(<<>>),
     DictVal(<< <<TitleBBC, StrVal(LinkBBC)>> >>),
     DictVal(<< <<TitleSpaced, StrVal(LinkDigits)>>, <<TitleN, NumVal(NumFortyTwo)>> >>),
     ListVal(<< <<<<>>, StrVal(LinkPlain)>> >>)}
FormatInputFields == {Missing, StrVal(TextInputField)}

\* the arguments: records with any subset of the fields, and a list
FormatArguments ==
    {DictVal(Field(VerdictKey, v) \o Field(ConfidenceKey, c) \o Field(ReasonKey, r)
             \o Field(SourcesKey, s) \o Field(InputKey, i)) :
        v \in FormatVerdicts, c \in FormatConfidences, r \in FormatReasons,
        s \in FormatSources, i \in FormatInputFields}
    \cup {ListVal(<< <<<<>>, NumVal(NumOne)>> >>)}

InitFormat ==
    /\ json_data \in FormatArguments
    /\ fpc = "call"
    /\ formatted_text = <<>>
    /\ IdleExtract /\ IdleInput /\ IdleBot

\* the function runs to its return statement
Format ==
    /\ fpc = "call"
    /\ ~FormatRaises(json_data)
    /\ formatted_text' = FormatText(json_data)
    /\ fpc' = "returned"
    /\ UNCHANGED json_data
    /\ UNCHANGED <<extractVars, inputVars, botVars>>

\* .get or .items is missing: AttributeError leaves the function
FormatFails ==
    /\ fpc = "call"
    /\ FormatRaises(json_data)
    /\ fpc' = "raised"
    /\ UNCHANGED <<json_data, formatted_text>>
    /\ UNCHANGED <<extractVars, inputVars, botVars>>

NextFormat == Format \/ FormatFails

SpecFormat == InitFormat /\ [][NextFormat]_vars

-----------------------------------------------------------------------------
(* Properties of json_to_formatted_text.                                   *)

HasField(d, key) == \E i \in 1..Len(d.items) : d.items[i][1] = key
FieldOf(d, key) == d.items[CHOOSE i \in 1..Len(d.items) : d.items[i][1] = key][2]

\* a mapping whose `sources`, when present, is a mapping
RecordShaped(d) ==
    /\ d.kind = "dict"
    /\ HasField(d, SourcesKey) => FieldOf(d, SourcesKey).kind = "dict"

\* the three lines every output starts with: a missing verdict shows as
\* Unknown, a missing confidence as 0%, a missing reason as nothing
VerdictLineOf(d) ==
    VerdictLabel
    \o (IF HasField(d, VerdictKey) THEN StrOf(FieldOf(d, VerdictKey)) ELSE UnknownText)
    \o LineEnd
ConfidenceLineOf(d) ==
    ConfidenceLabel
    \o (IF HasField(d, ConfidenceKey)
        THEN ConfidencePercent(FieldOf(d, ConfidenceKey)) ELSE <<"0">>)
    \o PercentLineEnd
ReasonLineOf(d) ==
    ReasonLabel
    \o (IF HasField(d, ReasonKey) THEN StrOf(FieldOf(d, ReasonKey)) ELSE <<>>)
    \o LineEnd
HeadOf(d) == VerdictLineOf(d) \o ConfidenceLineOf(d) \o ReasonLineOf(d)

\* C6: on a mapping that misses any subset of verdict, confidence, reason
\* and sources (a present `sources` being a mapping) the call returns; the
\* output is the verdict line, the confidence line and the reason line in
\* that order, with Unknown, 0% and the empty string for the missing
\* fields, followed by a section starting `Sources:` exactly when sources
\* is present and non-empty; the mapping is left unchanged.
FormatDefaults ==
    [][(fpc = "call" /\ RecordShaped(json_data)) =>
          /\ fpc' = "returned"
          /\ json_data' = json_data
          /\ Begins(formatted_text', HeadOf(json_data))
          /\ LET rest == SubSeq(formatted_text', Len(HeadOf(json_data)) + 1,
                                Len(formatted_text'))
             IN  IF HasField(json_data, SourcesKey)
                    /\ FieldOf(json_data, SourcesKey).items # <<>>
                 THEN Begins(rest, SourcesHeader)
                 ELSE rest = <<>>]_vars

\* a record with none of the four fields was formatted
EmptyRecordFormatted ==
    /\ fpc = "returned"
    /\ ~HasField(json_data, VerdictKey)
    /\ ~HasField(json_data, ConfidenceKey)
    /\ ~HasField(json_data, ReasonKey)
    /\ ~HasField(json_data, SourcesKey)
    /\ formatted_text # <<>>

-----------------------------------------------------------------------------
(* bot.py: the handler `analyze`, one call per inbound message.            *)

\* "Sorry, I couldn't process your message. Please send either text or an image."
UnsupportedReply ==
    <<"S","o","r","r","y",","," ","I"," ","c","o","u","l","d","n","'","t"," ","p","r","o","c","e","s","s"," ","y","o","u","r"," ","m","e","s","s","a","g","e","."," ","P","l","e","a","s","e"," ","s","e","n","d"," ","e","i","t","h","e","r"," ","t","e","x","t"," ","o","r"," ","a","n"," ","i","m","a","g","e",".">>

\* 'Analysis Result:\n\n'
AnalysisPrefix ==
    <<"A","n","a","l","y","s","i","s"," ","R","e","s","u","l","t",":","\n","\n">>

\* "Sorry, I couldn't analyze that at the moment. Please try again."
CouldNotAnalyzeReply ==
    <<"S","o","r","r","y",","," ","I"," ","c","o","u","l","d","n","'","t"," ","a","n","a","l","y","z","e"," ","t","h","a","t"," ","a","t"," ","t","h","e"," ","m","o","m","e","n","t","."," ","P","l","e","a","s","e"," ","t","r","y"," ","a","g","a","i","n",".">>

\* 'An error occurred while processing your request. Please try again later.'
ErrorReply ==
    <<"A","n"," ","e","r","r","o","r"," ","o","c","c","u","r","r","e","d"," ","w","h","i","l","e"," ","p","r","o","c","e","s","s","i","n","g"," ","y","o","u","r"," ","r","e","q","u","e","s","t","."," ","P","l","e","a","s","e"," ","t","r","y"," ","a","g","a","i","n"," ","l","a","t","e","r",".">>

\* 'https://api.telegram.org/file/photo.jpg'
TelegramFilePath ==
    <<"h","t","t","p","s",":","/","/","a","p","i",".","t","e","l","e","g","r","a","m",".","o","r","g","/","f","i","l","e","/","p","h","o","t","o",".","j","p","g">>

\* update.message: its text (None for a message without text) and whether
\* it carries a photo
Message(t, p) == [text |-> t, photo |-> p]
Messages ==
    {Message(NoneVal, FALSE), Message(NoneVal, TRUE),
     Message(StrVal(NewsClaim), FALSE), Message(StrVal(NewsClaim), TRUE),
     Message(StrVal(TextClaim), FALSE)}

\* what analyze_news does: it raises, or it returns response.text
NotCalled == [kind |-> "none", text |-> NoneVal]
AIRaises == [kind |-> "raises", text |-> NoneVal]
AIReturns(v) == [kind |-> "returns", text |-> v]

AIOutcomes ==
    {AIRaises, AIReturns(NoneVal)}
    \cup {AIReturns(StrVal(t)) :
            t \in {BodyScenario, BodyEmptyObject, BodyArray, BodyProse}}

\* the try block of analyze from the call of analyze_news on: the text of
\* the one reply it sends
TryReply(outcome) ==
    IF outcome.kind = "raises" THEN ErrorReply
    ELSE LET ex == ExtractOutcome(outcome.text, StrVal(<<>>)) IN
         IF ex.raised # "" THEN ErrorReply
         ELSE IF Truthy(ex.val)
         THEN IF FormatRaises(ex.val) THEN ErrorReply
              ELSE AnalysisPrefix \o FormatText(ex.val)
         ELSE CouldNotAnalyzeReply

\* TryReply, evaluated once per outcome
ReplyTable == [o \in AIOutcomes |-> TryReply(o)]

\* every call writing its locals to one module-level place
SlotShared(r) == 1

\* the locals of a call of analyze live in that call's own frame
Slot(r) == r

NoLocals == [user_message |-> NoneVal, image_path |-> NoneVal]

\* the requests suspended in `await photo.get_file()`
Suspended(r) == pc[r] \in {"get_file_both", "get_file_photo"}

\* request q runs: every other suspended request has been overtaken
Overtake(q) ==
    touched' = [r \in Requests |-> touched[r] \/ (r # q /\ Suspended(r))]

InitBot ==
    /\ msg \in [Requests -> Messages]
    /\ pc = [r \in Requests |-> "new"]
    /\ frames = [r \in Requests |-> NoLocals]
    /\ replies = [r \in Requests |-> <<>>]
    /\ sent = [r \in Requests |-> <<>>]
    /\ ai = [r \in Requests |-> NotCalled]
    /\ fetch = [r \in Requests |-> "none"]
    /\ touched = [r \in Requests |-> FALSE]
    /\ IdleExtract /\ IdleInput /\ IdleFormat

\* neither photo nor text: the else branch replies and returns
ReceiveUnsupported(r) ==
    /\ pc[r] = "new"
    /\ ~msg[r].photo
    /\ ~Truthy(msg[r].text)
    /\ frames' = [frames EXCEPT ![Slot(r)].user_message = msg[r].text]
    /\ replies' = [replies EXCEPT ![r] = Append(@, UnsupportedReply)]
    /\ pc' = [pc EXCEPT ![r] = "done"]
    /\ Overtake(r)
    /\ UNCHANGED <<msg, sent, ai, fetch>>
    /\ UNCHANGED <<extractVars, inputVars, formatVars>>

\* text only: news_input = user_message, then the try block to its reply
\* (no await in between)
ReceiveText(r) ==
    /\ pc[r] = "new"
    /\ ~msg[r].photo
    /\ Truthy(msg[r].text)
    /\ frames' = [frames EXCEPT ![Slot(r)].user_message = msg[r].text]
    /\ sent' = [sent EXCEPT ![r] = Append(@, TextInput(msg[r].text.s))]
    /\ \E o \in AIOutcomes :
          /\ ai' = [ai EXCEPT ![r] = o]
          /\ replies' = [replies EXCEPT ![r] = Append(@, ReplyTable[o])]
    /\ pc' = [pc EXCEPT ![r] = "done"]
    /\ Overtake(r)
    /\ UNCHANGED <<msg, fetch>>
    /\ UNCHANGED <<extractVars, inputVars, formatVars>>

\* a photo: the branch is chosen, then the call suspends in
\* `await photo.get_file()`
ReceivePhoto(r) ==
    /\ pc[r] = "new"
    /\ msg[r].photo
    /\ frames' = [frames EXCEPT ![Slot(r)].user_message = msg[r].text]
    /\ pc' = [pc EXCEPT ![r] =
                IF Truthy(msg[r].text) THEN "get_file_both" ELSE "get_file_photo"]
    /\ Overtake(r)
    /\ UNCHANGED <<msg, replies, sent, ai, fetch>>
    /\ UNCHANGED <<extractVars, inputVars, formatVars>>

\* get_file raises (a network error): the await is outside the try block,
\* so the exception leaves analyze and nothing is sent
GetFileFails(r) ==
    /\ Suspended(r)
    /\ pc' = [pc EXCEPT ![r] = "escaped"]
    /\ Overtake(r)
    /\ UNCHANGED <<msg, frames, replies, sent, ai, fetch>>
    /\ UNCHANGED <<extractVars, inputVars, formatVars>>

\* get_file returns: image_path, create_news_input with user_message (or ""
\* on the photo-only branch), then the try block to its reply
ResumeWithFile(r) ==
    /\ Suspended(r)
    /\ frames' = [frames EXCEPT ![Slot(r)].image_path = StrVal(TelegramFilePath)]
    /\ \E got \in {"bytes", "error"} :
          /\ fetch' = [fetch EXCEPT ![r] = got]
          /\ sent' = [sent EXCEPT ![r] =
                Append(@, CreateNewsInput(
                            IF pc[r] = "get_file_both"
                            THEN frames[Slot(r)].user_message.s
                            ELSE <<>>,
                            frames'[Slot(r)].image_path, got))]
    /\ \E o \in AIOutcomes :
          /\ ai' = [ai EXCEPT ![r] = o]
          /\ replies' = [replies EXCEPT ![r] = Append(@, ReplyTable[o])]
    /\ pc' = [pc EXCEPT ![r] = "done"]
    /\ Overtake(r)
    /\ UNCHANGED msg
    /\ UNCHANGED <<extractVars, inputVars, formatVars>>

NextBot ==
    \E r \in Requests :
        \/ ReceiveUnsupported(r)
        \/ ReceiveText(r)
        \/ ReceivePhoto(r)
        \/ GetFileFails(r)
        \/ ResumeWithFile(r)

SpecBot == InitBot /\ [][NextBot]_vars

-----------------------------------------------------------------------------
(* Properties of analyze.                                                  *)

\* C8: any exception raised while one message is handled is caught in the
\* handler and turned into a reply, so every message ends with exactly one
\* reply and no exception leaves the handler.
EveryMessageIsAnswered ==
    \A r \in Requests :
        /\ pc[r] # "escaped"
        /\ pc[r] = "done" => Len(replies[r]) = 1

\* what request r passes to analyze_news, from its own message and its own
\* download
OwnInput(r) ==
    IF msg[r].photo
    THEN <<CreateNewsInput(IF Truthy(msg[r].text) THEN msg[r].text.s ELSE <<>>,
                           StrVal(TelegramFilePath), fetch[r])>>
    ELSE IF Truthy(msg[r].text) THEN <<TextInput(msg[r].text.s)>>
    ELSE <<>>

\* what request r replies, from its own message and the AI response to it
OwnReplies(r) ==
    IF ~msg[r].photo /\ ~Truthy(msg[r].text) THEN <<UnsupportedReply>>
    ELSE <<ReplyTable[ai[r]]>>

\* C9: under every interleaving of concurrent analyze calls, what a request
\* sends to the AI service and what it replies are determined by its own
\* message, its own download and the AI response to it alone.
RepliesDependOnOwnRequest ==
    \A r \in Requests :
        /\ pc[r] = "done" => sent[r] = OwnInput(r) /\ replies[r] = OwnReplies(r)
        /\ pc[r] = "escaped" => sent[r] = <<>> /\ replies[r] = <<>>

\* a request with photo and text finished after another request, with
\* another text, ran while it was suspended
InterleavedRequestsSeen ==
    \E r, q \in Requests :
        /\ r # q
        /\ pc[r] = "done" /\ pc[q] = "done"
        /\ touched[r]
        /\ msg[r].photo /\ Truthy(msg[r].text)
        /\ Truthy(msg[q].text) /\ msg[q].text # msg[r].text

\* C10: the "couldn't analyze" reply is sent exactly when extraction
\* returned None; when it returned an object, an empty one included, the
\* reply is the Analysis Result text; and no parsed value ends in the
\* "An error occurred" reply.
CouldNotAnalyzeIffAbsent ==
    \A r \in Requests :
        (/\ pc[r] = "done"
         /\ ai[r].kind = "returns"
         /\ ExtractOutcome(ai[r].text, StrVal(<<>>)).raised = "") =>
            LET v == ExtractOutcome(ai[r].text, StrVal(<<>>)).val IN
                /\ replies[r] = <<CouldNotAnalyzeReply>> <=> v = NoneVal
                /\ v.kind = "dict" => Begins(replies[r][1], AnalysisPrefix)
                /\ v # NoneVal => replies[r] # <<ErrorReply>>

-----------------------------------------------------------------------------
(* The program as a whole: any one of the four functions is run.           *)

Init == InitExtract \/ InitInput \/ InitFormat \/ InitBot

Next == NextExtract \/ NextInput \/ NextFormat \/ NextBot

Spec == Init /\ [][Next]_vars

====
